---- MODULE Spec2Model ----
(***************************************************************************)
(* A model of the mobile bridge (mobileBridge.ts: environment detection,   *)
(* transport selection, inbound dispatch, subscriptions) and of the touch  *)
(* gesture recognizer (mobileTouch.ts: setupTouchGestures).                *)
(*                                                                         *)
(* Three specifications share the module, one per independent piece of     *)
(* state: TransportSpec (postMessage and the environment), DispatchSpec    *)
(* (the subscriber set and inbound dispatch) and GestureSpec (one bound    *)
(* surface).  The variables of the other pieces stay at their initial      *)
(* values in each.                                                         *)
(***************************************************************************)
EXTENDS Integers, Sequences, FiniteSets, TLC

VARIABLES
  \* ---- bridge: environment and transport
  env,              \* the ambient window: signals and transport objects
  isMobile,         \* MobileBridge.isMobile, cached by the constructor
  initialized,      \* MobileBridge.initialized
  loadVerdict,      \* what isMobileApp() returned to the constructor
  dropped,          \* type of the latest message that found no transport
  lastPost,         \* what the most recent transport step did
  \* ---- bridge: subscriptions and inbound dispatch
  messageHandlers,  \* MobileBridge.messageHandlers, a Set in insertion order
  caps,             \* handlers for which an unsubscribe closure was returned
  revoked,          \* handlers unsubscribed since their last onMessage
  lastDispatch,     \* what the most recent subscription/dispatch step did
  \* ---- gesture recognizer, one bound surface
  handlers,         \* which of onLongPress/onDoubleTap/onSwipe are configured
  bound,            \* listeners attached (FALSE after the cleanup function)
  longPressTimer,   \* the closure's timer handle: 0 is null, else a timer id
  touchStartX,
  touchStartY,
  lastTapTime,
  timers,           \* pending timeouts of the event loop: [id, due]
  now,              \* the clock, Date.now()
  contacts,         \* contact points currently on the surface
  seqFired,         \* callbacks invoked since the latest contact-start
  multi,            \* a contact-start has arrived while a contact was down
  \* the next three are kept while contacts have never overlapped (~multi)
  seqStart,         \* Date.now() at the latest contact-start
  movedEarly,       \* a move beyond the threshold came before seqStart + 500
  lpAt,             \* the (x, y) onLongPress got since the latest contact-start
  prevTap,          \* the previous contact-end that was not a swipe
  lastTouch         \* what the most recent gesture step did

transportVars == <<env, isMobile, initialized, loadVerdict, dropped, lastPost>>
dispatchVars  == <<messageHandlers, caps, revoked, lastDispatch>>
gestureVars   == <<handlers, bound, longPressTimer, touchStartX, touchStartY,
                   lastTapTime, timers, now, contacts, seqFired, multi,
                   seqStart, movedEarly, lpAt, prevTap, lastTouch>>
vars == <<transportVars, dispatchVars, gestureVars>>

(***************************************************************************)
(* Environment detection and transport selection                           *)
(***************************************************************************)

\* window.uni: absent, an object without postMessage, or the full bridge.
UniStates == {"absent", "noPost", "ok"}

\* What getPlatform finds in navigator.userAgent.
UaPlatforms == {"ios", "android", "other"}

\* The ambient environment. Without a window every other signal is absent;
\* a navigator may exist all the same.
NoWindowEnv ==
  [window |-> FALSE, navigator |-> FALSE, flag |-> FALSE, query |-> FALSE,
   uaShell |-> FALSE, uaPlatform |-> "other",
   uni |-> "absent", parent |-> FALSE, rn |-> FALSE]

NoWindowEnvs == {NoWindowEnv, [NoWindowEnv EXCEPT !.navigator = TRUE]}

WindowEnvs ==
  [window : {TRUE}, navigator : {TRUE}, flag : BOOLEAN, query : BOOLEAN,
   uaShell : BOOLEAN, uaPlatform : UaPlatforms,
   uni : UniStates, parent : BOOLEAN, rn : BOOLEAN]

Envs == WindowEnvs \cup NoWindowEnvs

\* The module-level isMobileApp(): any of four signals.
isMobileApp(e) ==
  IF e.window /\ e.flag THEN [threw |-> FALSE, value |-> TRUE]
  ELSE IF ~e.window THEN [threw |-> TRUE, value |-> FALSE]
  ELSE IF e.query THEN [threw |-> FALSE, value |-> TRUE]
  ELSE IF e.uni = "ok" THEN [threw |-> FALSE, value |-> TRUE]
  ELSE [threw |-> FALSE, value |-> e.uaShell]

\* The module-level getPlatform(): reads navigator.userAgent unguarded.
getPlatform(e) ==
  IF ~e.navigator THEN [threw |-> TRUE, value |-> ""]
  ELSE IF e.uaPlatform = "ios" THEN [threw |-> FALSE, value |-> "ios"]
  ELSE IF e.uaPlatform = "android" THEN [threw |-> FALSE, value |-> "android"]
  ELSE [threw |-> FALSE, value |-> "web"]

\* The constructor: isMobile and init() only when a window exists.
ConstructedIsMobile(e) == IF e.window THEN isMobileApp(e).value ELSE FALSE
ConstructedInitialized(e) == e.window

BridgeMessageType ==
  {"SAVE_AUTH", "LOGOUT", "OPEN_EXTERNAL", "COPY_TEXT", "TOGGLE_FULLSCREEN",
   "SHOW_TOAST", "GET_DEVICE_INFO", "TOKEN_EXPIRED"}

\* A BridgeMessage: its type and whether it carries a data payload.
BridgeMessages == [type : BridgeMessageType, data : BOOLEAN]

\* JSON.stringify of a BridgeMessage; the data payload is kept opaque.
JSONstringify(message) ==
  "{\"type\":\"" \o message.type \o "\""
    \o (IF message.data THEN ",\"data\":{}" ELSE "") \o "}"

ObjectPayload(message) == [form |-> "object", value |-> message]
StringPayload(text)    == [form |-> "string", text |-> text]

\* A postMessage that picks the WebView channel although the parent frame
\* is there (the two fallbacks swapped).
postMessageSwapped(mobile, e, message) ==
  IF ~mobile THEN <<>>
  ELSE IF e.uni = "ok"
    THEN << [mech |-> "uni", target |-> "", payload |-> ObjectPayload(message)] >>
  ELSE IF e.rn
    THEN << [mech |-> "rn", target |-> "",
             payload |-> StringPayload(JSONstringify(message))] >>
  ELSE IF e.parent
    THEN << [mech |-> "parent", target |-> "*", payload |-> ObjectPayload(message)] >>
  ELSE <<>>

\* A postMessage without the isMobile guard.
postMessageUnguarded(mobile, e, message) ==
  IF e.uni = "ok"
    THEN << [mech |-> "uni", target |-> "", payload |-> ObjectPayload(message)] >>
  ELSE IF e.parent
    THEN << [mech |-> "parent", target |-> "*", payload |-> ObjectPayload(message)] >>
  ELSE IF e.rn
    THEN << [mech |-> "rn", target |-> "",
             payload |-> StringPayload(JSONstringify(message))] >>
  ELSE <<>>

\* A postMessage whose branches do not return: every available mechanism
\* gets the message.
postMessageFallThrough(mobile, e, message) ==
  IF ~mobile THEN <<>>
  ELSE (IF e.uni = "ok"
          THEN << [mech |-> "uni", target |-> "", payload |-> ObjectPayload(message)] >>
          ELSE <<>>)
       \o (IF e.parent
             THEN << [mech |-> "parent", target |-> "*", payload |-> ObjectPayload(message)] >>
             ELSE <<>>)
       \o (IF e.rn
             THEN << [mech |-> "rn", target |-> "",
                      payload |-> StringPayload(JSONstringify(message))] >>
             ELSE <<>>)

\* MobileBridge.postMessage: the transport calls it makes, in order.
postMessage(mobile, e, message) ==
  IF ~mobile THEN <<>>
  ELSE IF e.uni = "ok"
    THEN << [mech |-> "uni", target |-> "", payload |-> ObjectPayload(message)] >>
  ELSE IF e.parent
    THEN << [mech |-> "parent", target |-> "*", payload |-> ObjectPayload(message)] >>
  ELSE IF e.rn
    THEN << [mech |-> "rn", target |-> "",
             payload |-> StringPayload(JSONstringify(message))] >>
  ELSE <<>>

NoPost == [op |-> "none", sender |-> "", message |-> [type |-> "", data |-> FALSE],
           calls |-> <<>>, threw |-> FALSE, verdict |-> FALSE, platform |-> ""]

\* A verdict taken afresh from the environment on every use.
thisIsMobileFresh(cached, e) == isMobileApp(e).value

\* this.isMobile as postMessage and the isMobileApp() method read it.
thisIsMobile(cached, e) == cached

\* No try/catch surrounds the transport call: what it raises leaves postMessage.
PostThrows(calls, raises) == calls # <<>> /\ raises

\* One call of postMessage by `sender` (a typed sender or a direct caller);
\* `raises` tells whether the send of the selected mechanism raises.
Send(sender, message) ==
  /\ \E raises \in BOOLEAN :
       LET calls == postMessage(thisIsMobile(isMobile, env), env, message)
       IN /\ lastPost' = [NoPost EXCEPT !.op = "post", !.sender = sender,
                                        !.message = message, !.calls = calls,
                                        !.threw = PostThrows(calls, raises)]
          /\ dropped' = IF thisIsMobile(isMobile, env) /\ calls = <<>>
                          THEN message.type ELSE dropped
  /\ UNCHANGED <<env, isMobile, initialized, loadVerdict>>
  /\ UNCHANGED <<dispatchVars, gestureVars>>

\* A caller asks the bridge: isMobileAppMode().
BridgeIsMobileApp ==
  /\ lastPost' = [NoPost EXCEPT !.op = "isMobileAppMode",
                                !.verdict = thisIsMobile(isMobile, env)]
  /\ UNCHANGED <<env, isMobile, initialized, loadVerdict, dropped>>
  /\ UNCHANGED <<dispatchVars, gestureVars>>

\* A caller runs the module-level detection: isMobileApp() and getPlatform().
DetectEnvironment ==
  /\ lastPost' = [NoPost EXCEPT !.op = "detect",
                                !.threw = (isMobileApp(env).threw \/ getPlatform(env).threw),
                                !.verdict = isMobileApp(env).value,
                                !.platform = getPlatform(env).value]
  /\ UNCHANGED <<env, isMobile, initialized, loadVerdict, dropped>>
  /\ UNCHANGED <<dispatchVars, gestureVars>>

PostMessage == \E message \in BridgeMessages : Send("postMessage", message)

saveAuth          == Send("saveAuth", [type |-> "SAVE_AUTH", data |-> TRUE])
logout            == Send("logout", [type |-> "LOGOUT", data |-> FALSE])
openExternal      == Send("openExternal", [type |-> "OPEN_EXTERNAL", data |-> TRUE])
copyText          == Send("copyText", [type |-> "COPY_TEXT", data |-> TRUE])
toggleFullscreen  == Send("toggleFullscreen", [type |-> "TOGGLE_FULLSCREEN", data |-> FALSE])
showToast         == Send("showToast", [type |-> "SHOW_TOAST", data |-> TRUE])
tokenExpired      == Send("tokenExpired", [type |-> "TOKEN_EXPIRED", data |-> FALSE])
requestDeviceInfo == Send("requestDeviceInfo", [type |-> "GET_DEVICE_INFO", data |-> FALSE])

\* The fields in which two environments differ.
EnvDiff(e, f) == {k \in DOMAIN e : e[k] # f[k]}

\* The host page changes: a signal or a transport object comes or goes, one
\* at a time. The window itself does not appear or vanish within a process.
EnvChange ==
  /\ env.window
  /\ \E e \in WindowEnvs :
       /\ Cardinality(EnvDiff(env, e)) = 1
       /\ env' = e
  /\ lastPost' = NoPost
  /\ UNCHANGED <<isMobile, initialized, loadVerdict, dropped>>
  /\ UNCHANGED <<dispatchVars, gestureVars>>

(***************************************************************************)
(* Subscriptions and inbound dispatch                                      *)
(***************************************************************************)

Handlers == {"H1", "H2", "H3"}

NativeMessageType == {"TOKEN", "DEVICE_INFO", "LOGOUT_COMPLETE", "AUTH_SAVED"}

\* event.data as the host delivers it: null, an object without a type, or an
\* object whose type is any string (empty, a NativeMessageType, another).
EventData ==
  {[isNull |-> TRUE, hasType |-> FALSE, type |-> ""],
   [isNull |-> FALSE, hasType |-> FALSE, type |-> ""]}
  \cup [isNull : {FALSE}, hasType : {TRUE},
        type : NativeMessageType \cup {"", "PING", "LOGOUT"}]

SeqToSet(s) == {s[i] : i \in 1..Len(s)}

\* Set.prototype.add: appended unless already a member.
SetAdd(hs, h) == IF h \in SeqToSet(hs) THEN hs ELSE Append(hs, h)

\* A delete that empties the set.
SetDeleteAll(hs, h) == <<>>

\* Set.prototype.delete: the member removed, the order of the rest kept.
SetDelete(hs, h) == SelectSeq(hs, LAMBDA g : g # h)

\* A guard that only rejects a null payload.
PassesGuardNullOnly(data) == ~data.isNull

\* The guard of handleNativeMessage: !message || !message.type returns.
PassesGuard(data) == ~data.isNull /\ data.hasType /\ data.type # ""

\* Calling a handler with no try/catch: the error escapes.
CallHandlerNoCatch(acc, h, raising) ==
  IF h \in raising
    THEN [acc EXCEPT !.invoked = Append(@, h), !.escaped = TRUE]
    ELSE [acc EXCEPT !.invoked = Append(@, h)]

\* The body of the forEach callback: try { handler(message) } catch { log }.
CallHandler(acc, h, raising) ==
  IF h \in raising
    THEN [acc EXCEPT !.invoked = Append(@, h), !.logged = Append(@, h)]
    ELSE [acc EXCEPT !.invoked = Append(@, h)]

\* messageHandlers.forEach, in insertion order; an escaped error ends it.
RECURSIVE forEachHandler(_, _, _, _)
forEachHandler(hs, i, raising, acc) ==
  IF i > Len(hs) \/ acc.escaped THEN acc
  ELSE forEachHandler(hs, i + 1, raising, CallHandler(acc, hs[i], raising))

NoCalls == [invoked |-> <<>>, logged |-> <<>>, escaped |-> FALSE]

\* handleNativeMessage: `raising` are the handlers that raise on this message.
handleNativeMessage(hs, data, raising) ==
  IF ~PassesGuard(data) THEN NoCalls
  ELSE forEachHandler(hs, 1, raising, NoCalls)

NoDispatch ==
  [op |-> "none", handler |-> "", data |-> [isNull |-> TRUE, hasType |-> FALSE, type |-> ""],
   before |-> <<>>, raising |-> {}, result |-> NoCalls]

\* onMessage(handler): add it and hand back its unsubscribe closure.
OnMessage ==
  \E h \in Handlers :
    /\ messageHandlers' = SetAdd(messageHandlers, h)
    /\ caps' = caps \cup {h}
    /\ revoked' = revoked \ {h}
    /\ lastDispatch' = [NoDispatch EXCEPT !.op = "onMessage", !.handler = h,
                                          !.before = messageHandlers]
    /\ UNCHANGED <<transportVars, gestureVars>>

\* A caller invokes an unsubscribe closure it was given.
Unsubscribe ==
  \E h \in caps :
    /\ messageHandlers' = SetDelete(messageHandlers, h)
    /\ revoked' = revoked \cup {h}
    /\ lastDispatch' = [NoDispatch EXCEPT !.op = "unsubscribe", !.handler = h,
                                          !.before = messageHandlers]
    /\ UNCHANGED caps
    /\ UNCHANGED <<transportVars, gestureVars>>

\* The host delivers a 'message' event to the listener init() registered.
NativeMessageEvent ==
  /\ initialized
  /\ \E data \in EventData, raising \in SUBSET Handlers :
       lastDispatch' = [op |-> "dispatch", handler |-> "", data |-> data,
                        before |-> messageHandlers, raising |-> raising,
                        result |-> handleNativeMessage(messageHandlers, data, raising)]
  /\ UNCHANGED <<messageHandlers, caps, revoked>>
  /\ UNCHANGED <<transportVars, gestureVars>>

\* How many handler invocations of one dispatch the model follows.
MaxVisits == 4

\* What a handler does with the subscriber set while it is being invoked.
Scripts ==
  {"plain", "unsubscribeSelf", "resubscribeSelf", "unsubscribeOthers", "subscribeOthers"}

\* The slot a deleted member leaves in the Set's entry list while a forEach
\* is walking it.
Empty == ""

\* The members of an entry list.
Live(es) == SeqToSet(es) \ {Empty}

\* Set.prototype.delete during an iteration: the slot is emptied in place.
EntryDelete(es, hs) ==
  [i \in 1..Len(es) |-> IF es[i] \in hs THEN Empty ELSE es[i]]

\* onMessage for each handler of the sequence hs, in order.
RECURSIVE EntryAddAll(_, _, _)
EntryAddAll(es, hs, i) ==
  IF i > Len(hs) THEN es
  ELSE EntryAddAll(SetAdd(es, hs[i]), hs, i + 1)

HandlerOrder == <<"H1", "H2", "H3">>

Others(h) == SelectSeq(HandlerOrder, LAMBDA g : g # h)

\* The entry list after handler h ran its script.
RunScript(es, h, script) ==
  CASE script = "plain"             -> es
    [] script = "unsubscribeSelf"   -> EntryDelete(es, {h})
    [] script = "resubscribeSelf"   -> SetAdd(EntryDelete(es, {h}), h)
    [] script = "unsubscribeOthers" -> EntryDelete(es, Handlers \ {h})
    [] script = "subscribeOthers"   -> EntryAddAll(es, Others(h), 1)

\* The handlers a script passes to onMessage, and those it unsubscribes.
ScriptAdds(h, script) ==
  CASE script = "resubscribeSelf" -> {h}
    [] script = "subscribeOthers" -> Handlers \ {h}
    [] OTHER -> {}

ScriptDeletes(h, script) ==
  CASE script \in {"unsubscribeSelf", "resubscribeSelf"} -> {h}
    [] script = "unsubscribeOthers" -> Handlers \ {h}
    [] OTHER -> {}

NoWalk == [invoked |-> <<>>, cutOff |-> FALSE, entries |-> <<>>,
           added |-> {}, deleted |-> {}]

\* messageHandlers.forEach while the handlers change the Set: the walk goes
\* down the entry list as it is at each step, skips emptied slots and ends
\* past the last entry. cutOff: the walk was still going after MaxVisits.
RECURSIVE forEachReentrant(_, _, _, _)
forEachReentrant(es, i, scripts, acc) ==
  IF i > Len(es) THEN [acc EXCEPT !.entries = es]
  ELSE IF es[i] = Empty THEN forEachReentrant(es, i + 1, scripts, acc)
  ELSE IF Len(acc.invoked) >= MaxVisits
    THEN [acc EXCEPT !.entries = es, !.cutOff = TRUE]
  ELSE LET h == es[i]
       IN forEachReentrant(RunScript(es, h, scripts[h]), i + 1, scripts,
            [acc EXCEPT !.invoked = Append(@, h),
                        !.added = @ \cup ScriptAdds(h, scripts[h]),
                        !.deleted = @ \cup ScriptDeletes(h, scripts[h])])

\* The host delivers a well-formed message to handlers that subscribe and
\* unsubscribe while they are invoked.
ReentrantMessageEvent ==
  /\ initialized
  /\ \E type \in NativeMessageType, scripts \in [Handlers -> Scripts] :
       LET data == [isNull |-> FALSE, hasType |-> TRUE, type |-> type]
           walk == forEachReentrant(messageHandlers, 1, scripts, NoWalk)
           left == SelectSeq(walk.entries, LAMBDA g : g # Empty)
       IN /\ PassesGuard(data)
          /\ messageHandlers' = left
          /\ caps' = caps \cup walk.added
          /\ revoked' = (revoked \cup walk.deleted) \ SeqToSet(left)
          /\ lastDispatch' = [NoDispatch EXCEPT !.op = "reentrant", !.data = data,
                                                !.before = messageHandlers,
                                                !.result = walk]
  /\ UNCHANGED <<transportVars, gestureVars>>

(***************************************************************************)
(* The gesture recognizer: setupTouchGestures on one surface               *)
(***************************************************************************)

TOUCH_MOVE_THRESHOLD == 10
LONG_PRESS_DURATION  == 500
DOUBLE_TAP_DURATION  == 300
minSwipeDistance     == 50

\* Date.now() when the surface is bound; the horizon of the clock after it.
BindTime   == 1000
MaxElapsed == 600
\* How far the clock moves in one step when no timer is due earlier.
Delays == {100}
\* Contact points that may be down at once; timeouts that may be pending.
MaxContacts == 2
MaxTimers   == 2

\* clientX / clientY of the reported contact point.
StartPoints == {<<0, 0>>, <<71, 71>>}
CoordsX     == {0, 10, 21, 71}
CoordsY     == {0, 71}

HandlerConfigs == [onLongPress : BOOLEAN, onDoubleTap : BOOLEAN, onSwipe : BOOLEAN]

Abs(n) == IF n < 0 THEN -n ELSE n
Min(a, b) == IF a < b THEN a ELSE b

\* A long-press call that does not pass the recorded start on.
LongPressCallOrigin(x, y) == [cb |-> "longPress", dir |-> "", x |-> 0, y |-> 0]

LongPressCall(x, y) == [cb |-> "longPress", dir |-> "", x |-> x, y |-> y]
DoubleTapCall       == [cb |-> "doubleTap", dir |-> "", x |-> 0, y |-> 0]
SwipeCall(dir)      == [cb |-> "swipe", dir |-> dir, x |-> 0, y |-> 0]

\* setTimeout's handle: a positive id no pending timeout carries.
NewTimerId == CHOOSE i \in 1..(Cardinality(timers) + 1) :
                \A t \in timers : t.id # i

\* clearTimeout(handle): a no-op for a handle that is not pending.
ClearTimeout(ts, handle) == {t \in ts : t.id # handle}

\* A move test that already cancels at exactly the threshold.
MovedTooMuchInclusive(deltaX, deltaY) ==
  deltaX >= TOUCH_MOVE_THRESHOLD \/ deltaY >= TOUCH_MOVE_THRESHOLD

\* The move test: either axis beyond the threshold.
MovedTooMuch(deltaX, deltaY) ==
  deltaX > TOUCH_MOVE_THRESHOLD \/ deltaY > TOUCH_MOVE_THRESHOLD

\* A swipe test that also accepts a displacement of exactly the minimum.
IsSwipeInclusive(absX, absY) == absX >= minSwipeDistance \/ absY >= minSwipeDistance

\* The swipe test of handleTouchEnd.
IsSwipe(absX, absY) == absX > minSwipeDistance \/ absY > minSwipeDistance

\* The direction handed to onSwipe.
SwipeDirection(deltaX, deltaY) ==
  IF Abs(deltaX) > Abs(deltaY)
    THEN (IF deltaX > 0 THEN "right" ELSE "left")
    ELSE (IF deltaY > 0 THEN "down" ELSE "up")

\* A double-tap test that also accepts a gap of exactly the duration.
IsDoubleTapInclusive(currentTime, lastTap) == currentTime - lastTap <= DOUBLE_TAP_DURATION

\* The double-tap test of handleTouchEnd.
IsDoubleTap(currentTime, lastTap) == currentTime - lastTap < DOUBLE_TAP_DURATION

\* A double-tap that leaves its own time as the last tap.
TapTimeKept(currentTime) == currentTime

\* lastTapTime after a double-tap has fired.
TapTimeAfterDoubleTap(currentTime) == 0

\* handleTouchEnd after the timer is cleared: the callbacks it invokes and
\* the lastTapTime it leaves.
EndOutcome(h, deltaX, deltaY, currentTime, lastTap) ==
  IF h.onSwipe /\ IsSwipe(Abs(deltaX), Abs(deltaY))
    THEN [fired |-> << SwipeCall(SwipeDirection(deltaX, deltaY)) >>,
          lastTapTime |-> lastTap]
  ELSE IF h.onDoubleTap
    THEN IF IsDoubleTap(currentTime, lastTap)
           THEN [fired |-> << DoubleTapCall >>,
                 lastTapTime |-> TapTimeAfterDoubleTap(currentTime)]
           ELSE [fired |-> <<>>, lastTapTime |-> currentTime]
  ELSE [fired |-> <<>>, lastTapTime |-> lastTap]

NoTap == [valid |-> FALSE, t |-> 0, wasDouble |-> FALSE]

NoTouch == [op |-> "none", fired |-> <<>>, dx |-> 0, dy |-> 0, prev |-> NoTap]

\* A timeout that is due runs before any later event is handled.
TimerDue == \E t \in timers : t.due <= now

\* touchstart
HandleTouchStart ==
  /\ bound /\ ~TimerDue
  /\ contacts < MaxContacts
  /\ Cardinality(timers) < MaxTimers
  /\ \E p \in StartPoints :
       /\ touchStartX' = p[1]
       /\ touchStartY' = p[2]
  /\ IF handlers.onLongPress
       THEN /\ timers' = timers \cup {[id |-> NewTimerId, due |-> now + LONG_PRESS_DURATION]}
            /\ longPressTimer' = NewTimerId
       ELSE UNCHANGED <<timers, longPressTimer>>
  /\ contacts' = contacts + 1
  /\ multi' = (multi \/ contacts > 0)
  /\ seqFired' = <<>>
  /\ seqStart' = IF multi' THEN 0 ELSE now
  /\ movedEarly' = FALSE
  /\ lpAt' = <<>>
  /\ lastTouch' = [NoTouch EXCEPT !.op = "start"]
  /\ UNCHANGED <<handlers, bound, lastTapTime, now, prevTap>>
  /\ UNCHANGED <<transportVars, dispatchVars>>

\* touchmove
HandleTouchMove ==
  /\ bound /\ ~TimerDue
  /\ contacts > 0
  /\ \E x \in CoordsX, y \in CoordsY :
       LET deltaX == Abs(x - touchStartX)
           deltaY == Abs(y - touchStartY)
       IN /\ IF MovedTooMuch(deltaX, deltaY) /\ longPressTimer # 0
               THEN /\ timers' = ClearTimeout(timers, longPressTimer)
                    /\ longPressTimer' = 0
               ELSE UNCHANGED <<timers, longPressTimer>>
          /\ movedEarly' = (~multi /\ (movedEarly \/ ((deltaX > 10 \/ deltaY > 10)
                                                       /\ now < seqStart + 500)))
          /\ lastTouch' = IF multi THEN [NoTouch EXCEPT !.op = "move"]
                           ELSE [NoTouch EXCEPT !.op = "move", !.dx = deltaX, !.dy = deltaY]
  /\ UNCHANGED <<handlers, bound, touchStartX, touchStartY, lastTapTime, now,
                 contacts, seqFired, multi, seqStart, lpAt, prevTap>>
  /\ UNCHANGED <<transportVars, dispatchVars>>

\* touchend
HandleTouchEnd ==
  /\ bound /\ ~TimerDue
  /\ contacts > 0
  /\ IF longPressTimer # 0
       THEN /\ timers' = ClearTimeout(timers, longPressTimer)
            /\ longPressTimer' = 0
       ELSE UNCHANGED <<timers, longPressTimer>>
  /\ \E x \in CoordsX, y \in CoordsY :
       LET deltaX == x - touchStartX
           deltaY == y - touchStartY
           out    == EndOutcome(handlers, deltaX, deltaY, now, lastTapTime)
           swiped == \E i \in 1..Len(out.fired) : out.fired[i].cb = "swipe"
           dbl    == \E i \in 1..Len(out.fired) : out.fired[i].cb = "doubleTap"
       IN /\ lastTapTime' = out.lastTapTime
          /\ seqFired' = seqFired \o [i \in 1..Len(out.fired) |-> out.fired[i].cb]
          /\ prevTap' = IF swiped THEN prevTap
                        ELSE [valid |-> TRUE, t |-> now, wasDouble |-> dbl]
          /\ lastTouch' = [op |-> "end", fired |-> out.fired, dx |-> deltaX,
                           dy |-> deltaY, prev |-> prevTap]
  /\ contacts' = contacts - 1
  /\ UNCHANGED <<handlers, bound, touchStartX, touchStartY, now, multi,
                 seqStart, movedEarly, lpAt>>
  /\ UNCHANGED <<transportVars, dispatchVars>>

\* The long-press timeout runs: handlers.onLongPress?.(e, touchStartX, touchStartY).
\* The closure's handle is left as it is.
LongPressTimeout ==
  /\ \E t \in timers :
       /\ t.due <= now
       /\ timers' = timers \ {t}
  /\ LET fired == IF handlers.onLongPress
                    THEN << LongPressCall(touchStartX, touchStartY) >> ELSE <<>>
     IN /\ seqFired' = seqFired \o [i \in 1..Len(fired) |-> fired[i].cb]
        /\ lpAt' = IF fired = <<>> \/ multi THEN lpAt ELSE <<fired[1].x, fired[1].y>>
        /\ lastTouch' = [NoTouch EXCEPT !.op = "timeout", !.fired = fired]
  /\ UNCHANGED <<handlers, bound, longPressTimer, touchStartX, touchStartY,
                 lastTapTime, now, contacts, multi, seqStart, movedEarly, prevTap>>
  /\ UNCHANGED <<transportVars, dispatchVars>>

\* The cleanup function setupTouchGestures returns.
Cleanup ==
  /\ bound /\ ~TimerDue
  /\ bound' = FALSE
  /\ timers' = IF longPressTimer # 0 THEN ClearTimeout(timers, longPressTimer) ELSE timers
  /\ lastTouch' = [NoTouch EXCEPT !.op = "cleanup"]
  /\ UNCHANGED <<handlers, longPressTimer, touchStartX, touchStartY, lastTapTime,
                 now, contacts, seqFired, multi, seqStart, movedEarly, lpAt, prevTap>>
  /\ UNCHANGED <<transportVars, dispatchVars>>

\* Time passes, up to the next timeout that is due.
Tick ==
  /\ ~TimerDue
  /\ bound \/ timers # {}
  /\ \E d \in Delays :
       LET dues == {t.due : t \in timers}
           next == IF dues = {} THEN now + d
                   ELSE Min(now + d, CHOOSE m \in dues : \A n \in dues : m <= n)
       IN /\ next <= BindTime + MaxElapsed
          /\ now' = next
  /\ lastTouch' = [NoTouch EXCEPT !.op = "tick"]
  /\ UNCHANGED <<handlers, bound, longPressTimer, touchStartX, touchStartY,
                 lastTapTime, timers, contacts, seqFired, multi, seqStart,
                 movedEarly, lpAt, prevTap>>
  /\ UNCHANGED <<transportVars, dispatchVars>>

(***************************************************************************)
(* Initial states and specifications                                       *)
(***************************************************************************)

\* After module load: the singleton is constructed in some environment, no
\* handler is subscribed; a surface has just been bound.
Init ==
  /\ env \in Envs
  /\ isMobile = ConstructedIsMobile(env)
  /\ initialized = ConstructedInitialized(env)
  /\ loadVerdict = ConstructedIsMobile(env)
  /\ dropped = ""
  /\ lastPost = NoPost
  /\ messageHandlers = <<>>
  /\ caps = {}
  /\ revoked = {}
  /\ lastDispatch = NoDispatch
  /\ handlers \in HandlerConfigs
  /\ bound = TRUE
  /\ longPressTimer = 0
  /\ touchStartX = 0
  /\ touchStartY = 0
  /\ lastTapTime = 0
  /\ timers = {}
  /\ now = BindTime
  /\ contacts = 0
  /\ seqFired = <<>>
  /\ multi = FALSE
  /\ seqStart = BindTime
  /\ movedEarly = FALSE
  /\ lpAt = <<>>
  /\ prevTap = NoTap
  /\ lastTouch = NoTouch

\* A fixed environment and configuration for the pieces a specification
\* leaves alone.
QuietBridge  == env = NoWindowEnv
QuietGesture == handlers = [onLongPress |-> FALSE, onDoubleTap |-> FALSE, onSwipe |-> FALSE]

TransportInit == Init /\ QuietGesture
DispatchInit  == Init /\ QuietGesture
                   /\ env \in {NoWindowEnv,
                                [NoWindowEnv EXCEPT !.window = TRUE, !.navigator = TRUE]}
GestureInit   == Init /\ QuietBridge

TransportNext ==
  \/ PostMessage
  \/ saveAuth
  \/ logout
  \/ openExternal
  \/ copyText
  \/ toggleFullscreen
  \/ showToast
  \/ tokenExpired
  \/ requestDeviceInfo
  \/ BridgeIsMobileApp
  \/ DetectEnvironment
  \/ EnvChange

DispatchNext ==
  \/ OnMessage
  \/ Unsubscribe
  \/ NativeMessageEvent

ReentrantNext ==
  \/ OnMessage
  \/ Unsubscribe
  \/ ReentrantMessageEvent

GestureNext ==
  \/ HandleTouchStart
  \/ HandleTouchMove
  \/ HandleTouchEnd
  \/ LongPressTimeout
  \/ Cleanup
  \/ Tick

TransportSpec == TransportInit /\ [][TransportNext]_vars
DispatchSpec  == DispatchInit /\ [][DispatchNext]_vars
GestureSpec   == GestureInit /\ [][GestureNext]_vars
ReentrantSpec == DispatchInit /\ [][ReentrantNext]_vars

(***************************************************************************)
(* Properties of the bridge                                                *)
(***************************************************************************)

Count(s, x) == Cardinality({i \in 1..Len(s) : s[i] = x})

\* C2: with the cached isMobile true, a postMessage call makes exactly one
\* transport call when a mechanism is available, chosen by priority: the uni
\* bridge with the message object, else the parent frame with the message
\* object and target '*', else the WebView channel with the JSON string.
C2_TransportPriority ==
  (lastPost.op = "post" /\ isMobile) =>
    LET m     == lastPost.message
        calls == lastPost.calls
        a     == env.uni = "ok"
        b     == env.parent
        c     == env.rn
    IN /\ (a \/ b \/ c) => Len(calls) = 1
       /\ a => calls = << [mech |-> "uni", target |-> "",
                           payload |-> [form |-> "object", value |-> m]] >>
       /\ (~a /\ b) => calls = << [mech |-> "parent", target |-> "*",
                                   payload |-> [form |-> "object", value |-> m]] >>
       /\ (~a /\ ~b /\ c) =>
            /\ calls[1].mech = "rn"
            /\ calls[1].payload.form = "string"
            /\ calls[1].payload.text = JSONstringify(m)

\* A send through the parent frame while the WebView channel is there too.
C2_Witness ==
  /\ lastPost.op = "post" /\ isMobile
  /\ env.uni # "ok" /\ env.parent /\ env.rn
  /\ Len(lastPost.calls) = 1
  /\ lastPost.calls[1].mech = "parent"

\* C3: with the cached isMobile false, postMessage and every typed sender
\* make no transport call, whatever mechanisms are available.
C3_NotMobileNoTransport ==
  (lastPost.op = "post" /\ ~isMobile) => lastPost.calls = <<>>

\* A typed sender called outside the shell while all mechanisms are there.
C3_Witness ==
  /\ lastPost.op = "post" /\ ~isMobile
  /\ lastPost.sender = "saveAuth"
  /\ env.uni = "ok" /\ env.parent /\ env.rn

\* C4: in the dispatch of a valid message, a handler that raises does not
\* keep any other registered handler from being invoked exactly once, and
\* the error does not leave the dispatch.
C4_HandlerFailureIsolated ==
  (lastDispatch.op = "dispatch" /\ lastDispatch.data.hasType
     /\ lastDispatch.data.type \in NativeMessageType) =>
    /\ ~lastDispatch.result.escaped
    /\ \A r \in lastDispatch.raising \cap SeqToSet(lastDispatch.before) :
         \A h \in SeqToSet(lastDispatch.before) \ {r} :
           Count(lastDispatch.result.invoked, h) = 1

\* The first of two handlers raises and the second is still invoked.
C4_Witness ==
  /\ lastDispatch.op = "dispatch"
  /\ lastDispatch.data.type = "TOKEN"
  /\ lastDispatch.before = <<"H1", "H2">>
  /\ lastDispatch.raising = {"H1"}
  /\ lastDispatch.result.invoked = <<"H1", "H2">>

\* C5: an unsubscribe closure removes its handler and no other, a second
\* call changes nothing, and a handler unsubscribed and not subscribed
\* again is not invoked by a later dispatch.
C5_UnsubscribeExact ==
  /\ lastDispatch.op = "unsubscribe" =>
       /\ \A g \in Handlers :
            g \in SeqToSet(messageHandlers)
              <=> (g \in SeqToSet(lastDispatch.before) /\ g # lastDispatch.handler)
       /\ lastDispatch.handler \notin SeqToSet(lastDispatch.before)
            => messageHandlers = lastDispatch.before
  /\ lastDispatch.op = "dispatch" =>
       SeqToSet(lastDispatch.result.invoked) \cap revoked = {}

\* One of three subscribed handlers is unsubscribed.
C5_Witness ==
  /\ lastDispatch.op = "unsubscribe"
  /\ Len(lastDispatch.before) = 3
  /\ lastDispatch.handler = lastDispatch.before[2]
  /\ Len(messageHandlers) = 2

\* C6: an inbound event whose payload is null, has no type or has an empty
\* type invokes no handler, raises nothing and leaves the subscribers alone.
C6_MalformedDiscarded ==
  (lastDispatch.op = "dispatch"
     /\ (lastDispatch.data.isNull \/ ~lastDispatch.data.hasType
           \/ lastDispatch.data.type = "")) =>
    /\ lastDispatch.result = NoCalls
    /\ messageHandlers = lastDispatch.before

\* An empty-type payload arrives while handlers are subscribed.
C6_Witness ==
  /\ lastDispatch.op = "dispatch"
  /\ ~lastDispatch.data.isNull /\ lastDispatch.data.hasType
  /\ lastDispatch.data.type = ""
  /\ Len(messageHandlers) >= 2

\* C7: an inbound message whose type is non-empty but no NativeMessageType
\* is discarded: no handler is invoked for it.
C7_UnknownTypeDiscarded ==
  (lastDispatch.op = "dispatch" /\ lastDispatch.data.hasType
     /\ lastDispatch.data.type # ""
     /\ lastDispatch.data.type \notin NativeMessageType) =>
    lastDispatch.result.invoked = <<>>

(***************************************************************************)
(* Properties of the gesture recognizer                                    *)
(***************************************************************************)

FiredSwipe(fired)     == \E i \in 1..Len(fired) : fired[i].cb = "swipe"
FiredDoubleTap(fired) == \E i \in 1..Len(fired) : fired[i].cb = "doubleTap"

\* C1: at most one of onLongPress, onDoubleTap, onSwipe is invoked in one
\* contact sequence (contacts never overlapping); after a long-press the
\* contact-end fires neither swipe nor double-tap.
C1_OneGesturePerSequence ==
  ~multi => Len(seqFired) <= 1

\* C8: with onDoubleTap configured, a contact-end that is no swipe fires
\* onDoubleTap exactly when the previous tap-end did not fire it and was
\* less than 300 ms earlier; otherwise it fires nothing and its time becomes
\* lastTapTime. The first tap-end after binding never fires.
C8_DoubleTapWindow ==
  (lastTouch.op = "end" /\ handlers.onDoubleTap /\ ~FiredSwipe(lastTouch.fired)) =>
    LET p  == lastTouch.prev
        in == p.valid /\ ~p.wasDouble /\ now - p.t < 300
    IN /\ in => lastTouch.fired = << DoubleTapCall >>
       /\ ~in => (lastTouch.fired = <<>> /\ lastTapTime = now)

\* A second tap-end 200 ms after the first fires the double-tap.
C8_Witness ==
  /\ lastTouch.op = "end" /\ handlers.onDoubleTap
  /\ lastTouch.prev.valid /\ ~lastTouch.prev.wasDouble
  /\ now - lastTouch.prev.t = 200
  /\ lastTouch.fired = << DoubleTapCall >>

\* C9: the tap-end that follows a tap-end which fired onDoubleTap does not
\* fire it, however soon it comes.
C9_NoChain ==
  (lastTouch.op = "end" /\ ~FiredSwipe(lastTouch.fired)
     /\ lastTouch.prev.valid /\ lastTouch.prev.wasDouble) =>
    ~FiredDoubleTap(lastTouch.fired)

\* A third tap-end at the very time of the second, which fired.
C9_Witness ==
  /\ lastTouch.op = "end" /\ handlers.onDoubleTap
  /\ ~FiredSwipe(lastTouch.fired)
  /\ lastTouch.prev.valid /\ lastTouch.prev.wasDouble
  /\ now - lastTouch.prev.t < 300
  /\ lastTouch.fired = <<>>

\* C10: with onSwipe configured, a contact-end displaced by more than 50 in
\* either axis fires onSwipe once, with the direction of the dominant axis
\* and its sign, and no onDoubleTap; one displaced by 50 or less fires no
\* onSwipe.
C10_SwipeClassification ==
  (lastTouch.op = "end" /\ handlers.onSwipe) =>
    LET dx  == lastTouch.dx
        dy  == lastTouch.dy
        ax  == IF dx < 0 THEN -dx ELSE dx
        ay  == IF dy < 0 THEN -dy ELSE dy
        far == (IF ax > ay THEN ax ELSE ay) > 50
        f   == lastTouch.fired
    IN /\ far =>
            /\ Len(f) = 1 /\ f[1].cb = "swipe"
            /\ (ax > ay /\ dx > 0) => f[1].dir = "right"
            /\ (ax > ay /\ dx < 0) => f[1].dir = "left"
            /\ (ay > ax /\ dy > 0) => f[1].dir = "down"
            /\ (ay > ax /\ dy < 0) => f[1].dir = "up"
       /\ ~far => ~FiredSwipe(f)

\* A leftward swipe ends 100 ms after a tap-end, with onDoubleTap configured.
C10_Witness ==
  /\ lastTouch.op = "end" /\ handlers.onSwipe /\ handlers.onDoubleTap
  /\ lastTouch.prev.valid /\ ~lastTouch.prev.wasDouble
  /\ now - lastTouch.prev.t = 100
  /\ lastTouch.fired = << SwipeCall("left") >>

C12_NoLongPressAfterEnd ==
  (lastTouch.op = "timeout" /\ lastTouch.fired # <<>>) => contacts > 0

C14_NothingAfterTeardown ==
  ~bound => lastTouch.fired = <<>>

\* C19: at most one long-press timer is pending on the surface.
C19_OneTimerPending ==
  Cardinality(timers) <= 1

\* C15: postMessage never surfaces an error to its caller: whatever the
\* message and the transports, a send that raises included, the call returns
\* normally.
C15_PostNeverThrows ==
  lastPost.op = "post" => ~lastPost.threw

\* The mechanisms a send would find in environment e.
TransportAvailable(e) == e.uni = "ok" \/ e.parent \/ e.rn

\* C16: the verdict of the bridge is the one computed at construction in
\* every reachable state: isMobileAppMode() returns it, postMessage skips
\* exactly when it is false whatever the signals say now, and with a true
\* verdict a send reaches a mechanism exactly when one is available now.
C16_VerdictCached ==
  /\ isMobile = loadVerdict
  /\ lastPost.op = "isMobileAppMode" => lastPost.verdict = loadVerdict
  /\ (lastPost.op = "post" /\ ~loadVerdict) => lastPost.calls = <<>>
  /\ (lastPost.op = "post" /\ loadVerdict) =>
       (lastPost.calls # <<>> <=> TransportAvailable(env))

\* A send goes out through a mechanism that appeared after construction,
\* under a true verdict that the signals of the moment no longer support.
C16_Witness ==
  /\ lastPost.op = "post"
  /\ loadVerdict
  /\ ~isMobileApp(env).value
  /\ Len(lastPost.calls) = 1
  /\ lastPost.calls[1].mech = "rn"

\* C17: called where no window exists, environment detection returns
\* "not a mobile shell" and platform web, and raises nothing.
C17_DetectionSafeWithoutWindow ==
  (lastPost.op = "detect" /\ ~env.window) =>
    /\ ~lastPost.threw
    /\ lastPost.verdict = FALSE
    /\ lastPost.platform = "web"

\* The message a transport call carries.
Carried(call) ==
  IF call.payload.form = "object" THEN call.payload.value ELSE call.payload.text

\* What a call carrying `message` over mechanism `mech` must hold.
Carries(call, message) ==
  IF call.mech = "rn" THEN Carried(call) = JSONstringify(message)
  ELSE Carried(call) = message

\* C18: nothing is queued: only a postMessage call reaches a transport, it
\* reaches at most one, once, with its own message; a message that found
\* no mechanism is never carried by a later step.
C18_DroppedForGood ==
  /\ lastPost.op # "post" => lastPost.calls = <<>>
  /\ lastPost.op = "post" =>
       /\ Len(lastPost.calls) <= 1
       /\ \A i \in 1..Len(lastPost.calls) : Carries(lastPost.calls[i], lastPost.message)

\* After a message was dropped, a mechanism became available and a later
\* send of another message went out: alone.
C18_Witness ==
  /\ lastPost.op = "post"
  /\ isMobile
  /\ dropped = "LOGOUT"
  /\ lastPost.message.type = "SHOW_TOAST"
  /\ Len(lastPost.calls) = 1
  /\ env.uni = "ok" /\ env.parent /\ env.rn

\* C20: one dispatch invokes each handler at most once and comes to an end,
\* whatever the handlers subscribe or unsubscribe while it runs.
C20_OncePerDispatch ==
  lastDispatch.op = "reentrant" =>
    /\ \A h \in Handlers : Count(lastDispatch.result.invoked, h) <= 1
    /\ ~lastDispatch.result.cutOff


====
